---- MODULE Spec2Model ----
(***************************************************************************)
(* Model of the document retrieval pipeline of the quantized-llm-chatbot   *)
(* repository: the word-window chunker (src/backend/app.py), the sentence  *)
(* chunker (enhanced_backend_backup.py), the SQLite vector index           *)
(* (src/database/vector_db.py), the embedding generator                    *)
(* (src/nlp/processor.py) and the upload and search endpoints of the       *)
(* backend (src/backend/app.py).                                           *)
(*                                                                         *)
(* A Python str is a sequence of one-character strings.  An embedding is   *)
(* a record [dim, x]: dim is the number of float32 components of the       *)
(* array, x its position on a line in steps of 1/Unit, so the L2 distance  *)
(* of two embeddings of equal dimension is |x1 - x2| / Unit.               *)
(***************************************************************************)
EXTENDS Integers, Sequences, FiniteSets, TLC

(* ------------------------------ bounds --------------------------------- *)
MaxLen == 6
MaxChunkSize == 3
MaxOverlap == 4
MaxDocs == 2
MaxCoord == 1
MaxLimit == 2
MaxThreshold == 2
MaxQueries == 1
MaxTexts == 3
MaxBatch == 2
MaxUploads == 1
MaxRanked == 2
MaxContent == 1
MaxFar == 3
MaxWords == 4
MaxRate == 2
MaxWindow == 2
MaxTime == 2
MaxCalls == 3
MaxTtl == 2

\* distances are fixed-point numbers: Unit stands for the float 1.0
Unit == 2

\* self.embedding_dimension
embedding_dimension == 384

Alphabet == {"a", ".", " "}

VARIABLES content, chunk_size, overlap, op, chunks, raised

\* connection: the tables as self.connection sees them (uncommitted writes
\* included); disk: the committed tables; db_call / db_ret: the arguments
\* and the outcome of the last method call on the database object
VARIABLES connection, disk, db_call, db_ret

\* last_added: the row written by the call that returned last, while no
\* other call has been made since except one search
VARIABLES last_added

\* embedding_model_name: the sentence transformer the NLPProcessor was built
\* with; failing: the texts on which its encoder raises; nlp_call / nlp_ret:
\* the arguments and the outcome of the last call on the processor
VARIABLES embedding_model_name, failing, nlp_call, nlp_ret

\* documents: model_state.documents; embedding_model: the state of
\* model_state.embedding_model after startup; app_call / app_ret: the last
\* request to the backend and its response
VARIABLES documents, embedding_model, app_call, app_ret

chunkVars == <<content, chunk_size, overlap, op, chunks, raised>>
dbVars == <<connection, disk, db_call, db_ret, last_added>>
nlpVars == <<embedding_model_name, failing, nlp_call, nlp_ret>>
appVars == <<documents, embedding_model, app_call, app_ret>>

\* calls: for each thread, the method of the database object it is running
\* and the statement it has reached
VARIABLES calls

\* rl_client: whether RateLimiter.client is set; rl_limit, rl_window: the
\* calls and period of the middleware; now: the clock; zset: the scores of
\* the sorted set Redis holds for the key; expire_at: when Redis drops the
\* key; rl_call / rl_ret: the last request and what the limiter and the
\* middleware answered; allowed_times: the times of the requests let through
\* so far; redis_failed: whether a Redis operation has raised so far
VARIABLES rl_client, rl_limit, rl_window, now, zset, expire_at, rl_call, rl_ret,
          allowed_times, redis_failed

\* cache_client: whether RedisCache.client is set; skip_cache, ttl: the
\* arguments of the decorator; cache_now: the clock; store: what Redis holds
\* under the key of each argument; executions: how often the wrapped
\* function has run; cache_call / cache_ret: the last call of the wrapper
\* and what it returned
VARIABLES cache_client, skip_cache, ttl, cache_now, store, executions,
          cache_call, cache_ret

\* conversation_history: model_state.conversation_history of the enhanced
\* backend; chat: for each client, the chat request it has in flight
VARIABLES conversation_history, chat

concVars == <<calls>>
chatVars == <<conversation_history, chat>>
cacheVars == <<cache_client, skip_cache, ttl, cache_now, store, executions,
               cache_call, cache_ret>>
rlVars == <<rl_client, rl_limit, rl_window, now, zset, expire_at, rl_call, rl_ret,
            allowed_times, redis_failed>>
auxVars == <<concVars, rlVars, cacheVars, chatVars>>
vars == <<chunkVars, dbVars, nlpVars, appVars, auxVars>>

(* ------------------------- Python string helpers ----------------------- *)
Min(a, b) == IF a < b THEN a ELSE b
Max(a, b) == IF a > b THEN a ELSE b

IsSpace(c) == c = " "

\* str.strip(): drop leading and trailing whitespace
RECURSIVE LStrip(_)
LStrip(s) == IF s # <<>> /\ IsSpace(Head(s)) THEN LStrip(Tail(s)) ELSE s

RECURSIVE RStrip(_)
RStrip(s) ==
    IF s # <<>> /\ IsSpace(s[Len(s)]) THEN RStrip(SubSeq(s, 1, Len(s) - 1)) ELSE s

Strip(s) == RStrip(LStrip(s))

\* str.split() without arguments: the maximal runs of non-whitespace
RECURSIVE SplitAcc(_, _, _, _)
SplitAcc(s, i, cur, acc) ==
    IF i > Len(s)
    THEN IF cur = <<>> THEN acc ELSE Append(acc, cur)
    ELSE IF IsSpace(s[i])
         THEN SplitAcc(s, i + 1, <<>>, IF cur = <<>> THEN acc ELSE Append(acc, cur))
         ELSE SplitAcc(s, i + 1, Append(cur, s[i]), acc)

Split(s) == SplitAcc(s, 1, <<>>, <<>>)

\* ' '.join(ws)
RECURSIVE Join(_)
Join(ws) ==
    IF ws = <<>> THEN <<>>
    ELSE IF Len(ws) = 1 THEN ws[1]
    ELSE ws[1] \o <<" ">> \o Join(Tail(ws))

\* ws[i:j] for 0-based i, j >= 0 (the only indices the chunker produces)
PySlice(ws, i, j) == SubSeq(ws, Min(i, Len(ws)) + 1, Min(j, Len(ws)))

\* a range that stops one step early
RECURSIVE PyRange_StopsEarly(_, _, _)
PyRange_StopsEarly(i, stop, step) ==
    IF step > 0 /\ i + step < stop
    THEN <<i>> \o PyRange_StopsEarly(i + step, stop, step)
    ELSE <<>>

\* list(range(0, stop, step)) for step # 0
RECURSIVE PyRange(_, _, _)
PyRange(i, stop, step) ==
    IF step > 0 /\ i < stop THEN <<i>> \o PyRange(i + step, stop, step)
    ELSE <<>>

(* ----------------------------- chunk_document -------------------------- *)
\* the loop body without the blank-chunk test
ChunkAppend_NoBlankTest(acc, words, i, size) ==
    Append(acc, Strip(Join(PySlice(words, i, i + size))))

\* the loop body: join the window, keep it unless it is blank
ChunkAppend(acc, words, i, size) ==
    LET chunk == Join(PySlice(words, i, i + size))
    IN  IF Strip(chunk) # <<>> THEN Append(acc, Strip(chunk)) ELSE acc

RECURSIVE ChunkLoop(_, _, _, _)
ChunkLoop(acc, words, starts, size) ==
    IF starts = <<>> THEN acc
    ELSE ChunkLoop(ChunkAppend(acc, words, Head(starts), size), words, Tail(starts), size)

\* a chunker that advances by the whole window, ignoring the overlap
chunk_document_IgnoresOverlap(text, size, ov) ==
    LET words == Split(text)
    IN  IF size - ov = 0
        THEN [raised |-> "ValueError", chunks |-> <<>>]
        ELSE [raised |-> "none",
              chunks |-> ChunkLoop(<<>>, words, PyRange(0, Len(words), size), size)]

\* range() raises ValueError for a zero step and is empty for a negative one
chunk_document(text, size, ov) ==
    LET words == Split(text)
        step  == size - ov
    IN  IF step = 0
        THEN [raised |-> "ValueError", chunks |-> <<>>]
        ELSE [raised |-> "none",
              chunks |-> ChunkLoop(<<>>, words, PyRange(0, Len(words), step), size)]

(* --------------------------- create_smart_chunks ----------------------- *)
IsSentenceEnd(c) == c \in {".", "!", "?"}

\* re.split(r'[.!?]+', s): pieces between maximal runs of terminators
RECURSIVE ReSplitAcc(_, _, _, _)
ReSplitAcc(s, i, cur, acc) ==
    IF i > Len(s) THEN Append(acc, cur)
    ELSE IF IsSentenceEnd(s[i])
         THEN IF i > 1 /\ IsSentenceEnd(s[i - 1])
              THEN ReSplitAcc(s, i + 1, cur, acc)
              ELSE ReSplitAcc(s, i + 1, <<>>, Append(acc, cur))
         ELSE ReSplitAcc(s, i + 1, Append(cur, s[i]), acc)

ReSplit(s) == ReSplitAcc(s, 1, <<>>, <<>>)

\* one iteration of the sentence loop on state [chunks, current_chunk]
SmartStep(st, raw, size) ==
    LET sentence == Strip(raw)
    IN  IF sentence = <<>> THEN st
        ELSE IF Len(st.current_chunk) + Len(sentence) > size
             THEN IF st.current_chunk # <<>>
                  THEN [chunks |-> Append(st.chunks, Strip(st.current_chunk)),
                        current_chunk |-> sentence]
                  ELSE [chunks |-> Append(st.chunks, sentence),
                        current_chunk |-> st.current_chunk]
             ELSE [chunks |-> st.chunks,
                   current_chunk |-> IF st.current_chunk # <<>>
                                     THEN st.current_chunk \o <<" ">> \o sentence
                                     ELSE sentence]

RECURSIVE SmartLoop(_, _, _)
SmartLoop(st, sentences, size) ==
    IF sentences = <<>> THEN st
    ELSE SmartLoop(SmartStep(st, Head(sentences), size), Tail(sentences), size)

create_smart_chunks(text, size) ==
    LET st == SmartLoop([chunks |-> <<>>, current_chunk |-> <<>>], ReSplit(text), size)
    IN  IF st.current_chunk # <<>>
        THEN Append(st.chunks, Strip(st.current_chunk))
        ELSE st.chunks

(* ------------------------------ vector index --------------------------- *)
\* the tables after create_enhanced_tables on a fresh file
EmptyTables ==
    [documents |-> {}, document_embeddings |-> {}, seq |-> 0, search_queries |-> 0]

NoArray == [len |-> 0, itemsize |-> 0, x |-> 0]
NoCall == [op |-> "none", array |-> NoArray, embedding |-> [dim |-> 0, x |-> 0],
           limit |-> 0, distance_threshold |-> 0, fault |-> "none"]
NoRet == [raised |-> FALSE, document_id |-> 0, results |-> <<>>]
NoRow == [document_id |-> 0, embedding |-> [dim |-> 0, x |-> 0]]

DBIdle ==
    /\ connection = EmptyTables
    /\ disk = EmptyTables
    /\ db_call = NoCall
    /\ db_ret = NoRet
    /\ last_added = NoRow

(* -------------------- embedding generator, at rest --------------------- *)
DefaultEmbeddingModel == "sentence-transformers/all-MiniLM-L6-v2"

NoNLPCall == [op |-> "none", texts |-> <<>>]
NoNLPRet == [raised |-> FALSE, vectors |-> <<>>]

NLPIdle ==
    /\ embedding_model_name = DefaultEmbeddingModel
    /\ failing = {}
    /\ nlp_call = NoNLPCall
    /\ nlp_ret = NoNLPRet

(* --------------------------- backend, at rest -------------------------- *)
NoAppCall == [op |-> "none", filename |-> <<>>, content |-> <<>>,
              query |-> <<>>, limit |-> 0, fault |-> "none"]
NoAppRet == [status |-> 0, body |-> [detail |-> "none"]]

AppIdle ==
    /\ documents = <<>>
    /\ embedding_model = "None"
    /\ app_call = NoAppCall
    /\ app_ret = NoAppRet

(* ----------------------- threads on the database ---------------------- *)
\* the thread that built the EnhancedVectorDatabase, and another one
Threads == {"main", "worker"}

NoThreadCall == [op |-> "none", pc |-> "idle", fault |-> "none",
                 embedding |-> [dim |-> 0, x |-> 0], document_id |-> 0]

ConcIdle == calls = [t \in Threads |-> NoThreadCall]

(* ------------------------ rate limiter, at rest ------------------------ *)
NoRLCall == [op |-> "none", time |-> 0, fault |-> "none"]
NoRLRet == [allowed |-> TRUE, remaining |-> 0, reset |-> 0, raised |-> FALSE,
            status |-> 0, redis_error |-> FALSE]

\* no request has been made and the sorted set does not exist
RLFresh ==
    /\ now = 0
    /\ zset = {}
    /\ expire_at = 0
    /\ rl_call = NoRLCall
    /\ rl_ret = NoRLRet
    /\ allowed_times = <<>>
    /\ redis_failed = FALSE

RLIdle ==
    /\ rl_client = FALSE
    /\ rl_limit = 100
    /\ rl_window = 60
    /\ RLFresh

(* ---------------------------- cache, at rest --------------------------- *)
\* the arguments the wrapped function is called with
CacheArgs == {"x", "y"}

NoEntry == [present |-> FALSE, value |-> "", expires |-> 0]
NoCacheCall == [op |-> "none", args |-> "", fault |-> "none", time |-> 0]
NoCacheRet == [value |-> "None", executed |-> FALSE]

CacheFresh ==
    /\ cache_now = 0
    /\ store = [a \in CacheArgs |-> NoEntry]
    /\ executions = 0
    /\ cache_call = NoCacheCall
    /\ cache_ret = NoCacheRet

CacheIdle ==
    /\ cache_client = FALSE
    /\ skip_cache = FALSE
    /\ ttl = 3600
    /\ CacheFresh

(* ----------------------------- chat, at rest --------------------------- *)
Clients == {"c1", "c2"}

NoChat == [pc |-> "idle", message |-> <<>>, use_context |-> FALSE, status |-> 0]

ChatIdle ==
    /\ conversation_history = <<>>
    /\ chat = [c \in Clients |-> NoChat]

AuxIdle == ConcIdle /\ RLIdle /\ CacheIdle /\ ChatIdle

(* --------------------------- chunker inputs ---------------------------- *)
Strings == UNION {[1..n -> Alphabet] : n \in 0..MaxLen}

\* twelve distinct whitespace-separated words
TwelveWords ==
    Join(<< <<"a">>, <<".">>, <<"a","a">>, <<"a",".">>, <<".","a">>, <<".",".">>,
            <<"a","a","a">>, <<"a","a",".">>, <<"a",".","a">>, <<"a",".",".">>,
            <<".","a","a">>, <<".","a",".">> >>)

ChunkInit ==
    /\ \/ /\ content \in Strings
          /\ chunk_size \in 0..MaxChunkSize
          /\ overlap \in (-1)..MaxOverlap
       \/ /\ content = TwelveWords
          /\ chunk_size = 5
          /\ overlap = 0
    /\ op = "none"
    /\ chunks = <<>>
    /\ raised = "none"
    /\ DBIdle
    /\ NLPIdle
    /\ AppIdle
    /\ AuxIdle

CallChunkDocument ==
    /\ op = "none"
    /\ LET r == chunk_document(content, chunk_size, overlap)
       IN  /\ chunks' = r.chunks
           /\ raised' = r.raised
    /\ op' = "chunk_document"
    /\ UNCHANGED <<content, chunk_size, overlap>>
    /\ UNCHANGED <<dbVars, nlpVars, appVars, auxVars>>

CallCreateSmartChunks ==
    /\ op = "none"
    /\ chunks' = create_smart_chunks(content, chunk_size)
    /\ raised' = "none"
    /\ op' = "create_smart_chunks"
    /\ UNCHANGED <<content, chunk_size, overlap>>
    /\ UNCHANGED <<dbVars, nlpVars, appVars, auxVars>>

ChunkNext == CallChunkDocument \/ CallCreateSmartChunks

ChunkSpec == ChunkInit /\ [][ChunkNext]_vars

ChunkIdle ==
    /\ content = <<>>
    /\ chunk_size = 0
    /\ overlap = 0
    /\ op = "none"
    /\ chunks = <<>>
    /\ raised = "none"

(* ----------------------- vector index: operations ---------------------- *)
\* the numpy arrays a caller may pass: float32 or float64 items, the
\* configured length or half of it
Arrays == [len : {embedding_dimension \div 2, embedding_dimension},
           itemsize : {4, 8},
           x : 0..MaxCoord]

\* embedding.tobytes() as vec0 reads it: a run of 4-byte floats.  The bytes
\* of a float64 array read as float32 are the bytes of some other vector.
ToBytes(a) ==
    [dim |-> (a.len * a.itemsize) \div 4,
     x |-> IF a.itemsize = 4 THEN a.x ELSE (a.x + 1) % (MaxCoord + 1)]

Embeddings == {ToBytes(a) : a \in Arrays}

Abs(n) == IF n < 0 THEN -n ELSE n

\* vec0 distance of a stored vector to the query, in Unit-ths
Distance(e, q) == Abs(e.x - q.x)

\* INSERT INTO documents: AUTOINCREMENT takes the next rowid
InsertDocument(c) ==
    [c EXCEPT !.documents = @ \cup {c.seq + 1}, !.seq = @ + 1]

\* INSERT INTO document_embeddings (document_id, embedding)
InsertEmbedding(c, id, e) ==
    [c EXCEPT !.document_embeddings = @ \cup {[document_id |-> id, embedding |-> e]}]

\* vec0 refuses a vector of the wrong dimension and a duplicate primary key
EmbeddingRejected(c, id, e) ==
    \/ e.dim # embedding_dimension
    \/ \E r \in c.document_embeddings : r.document_id = id

\* an except branch that forgets the rollback
Rollback_Missing(c, d) == c

\* self.connection.rollback(): the connection sees the committed tables again
Rollback(c, d) == d

add_document_with_embeddings(c, d, e, fault) ==
    IF fault = "documents_insert"
    THEN [connection |-> Rollback(c, d), disk |-> d, raised |-> TRUE, document_id |-> 0]
    ELSE LET c1 == InsertDocument(c)
             document_id == c1.seq
         IN  IF fault = "embedding_insert" \/ EmbeddingRejected(c1, document_id, e)
             THEN [connection |-> Rollback(c1, d), disk |-> d, raised |-> TRUE,
                   document_id |-> 0]
             ELSE LET c2 == InsertEmbedding(c1, document_id, e)
                  IN  IF fault = "commit"
                      THEN [connection |-> Rollback(c2, d), disk |-> d, raised |-> TRUE,
                            document_id |-> 0]
                      ELSE [connection |-> c2, disk |-> c2, raised |-> FALSE,
                            document_id |-> document_id]

\* _log_search_query: insert and commit; any failure is only logged
log_search_query(c, d, fault) ==
    IF fault = "log_insert" THEN [connection |-> c, disk |-> d]
    ELSE LET c1 == [c EXCEPT !.search_queries = @ + 1]
         IN  IF fault = "log_commit" THEN [connection |-> c1, disk |-> d]
             ELSE [connection |-> c1, disk |-> c1]

\* FROM document_embeddings e JOIN documents d ON e.document_id = d.id
\* WHERE e.embedding MATCH ? AND e.distance < ?
MatchingRows(c, q, threshold) ==
    {r \in c.document_embeddings :
        /\ r.document_id \in c.documents
        /\ Distance(r.embedding, q) < threshold}

\* a result set returned in no particular order
RECURSIVE RowOrders_Unordered(_, _)
RowOrders_Unordered(rows, q) ==
    IF rows = {} THEN {<<>>}
    ELSE UNION {{<<r>> \o f : f \in RowOrders_Unordered(rows \ {r}, q)} : r \in rows}

\* ORDER BY e.distance: every order of the rows with ascending distance
\* (SQL leaves the order of equal keys open)
RECURSIVE RowOrders(_, _)
RowOrders(rows, q) ==
    IF rows = {} THEN {<<>>}
    ELSE LET nearest == {r \in rows : \A o \in rows :
                            Distance(r.embedding, q) <= Distance(o.embedding, q)}
         IN  UNION {{<<r>> \o f : f \in RowOrders(rows \ {r}, q)} : r \in nearest}

\* a limit that keeps one row too few
SqlLimit_OffByOne(rows, limit) ==
    IF limit < 0 THEN rows ELSE SubSeq(rows, 1, Min(limit - 1, Len(rows)))

\* LIMIT ?: a negative limit means no limit
SqlLimit(rows, limit) ==
    IF limit < 0 THEN rows ELSE SubSeq(rows, 1, Min(limit, Len(rows)))

\* a row unpacked in the wrong order: the distance lands in document_id
MakeSearchResult_WrongColumn(r, q) ==
    [document_id |-> Distance(r.embedding, q),
     distance |-> Distance(r.embedding, q),
     similarity_score |-> Max(0, Unit - Distance(r.embedding, q))]

\* a score that is not cut off at zero
MakeSearchResult_NoClamp(r, q) ==
    [document_id |-> r.document_id,
     distance |-> Distance(r.embedding, q),
     similarity_score |-> Unit - Distance(r.embedding, q)]

\* the SearchResult built from one fetched row
MakeSearchResult(r, q) ==
    [document_id |-> r.document_id,
     distance |-> Distance(r.embedding, q),
     similarity_score |-> Max(0, Unit - Distance(r.embedding, q))]

\* the SELECT fails on a storage error or a query of the wrong dimension
SelectFails(q, fault) == fault = "select" \/ q.dim # embedding_dimension

\* the lists semantic_search may return on a connection view c
semantic_search(c, q, limit, threshold, fault) ==
    IF SelectFails(q, fault)
    THEN {<<>>}
    ELSE {[i \in DOMAIN SqlLimit(f, limit) |-> MakeSearchResult(f[i], q)] :
             f \in RowOrders(MatchingRows(c, q, threshold), q)}

\* a search that lets the exception of a failed SELECT through
search_raises_Propagates(q, fault) == SelectFails(q, fault)

\* `except Exception: ... return []`: semantic_search never raises
search_raises(q, fault) == FALSE

DBInit == DBIdle /\ ChunkIdle /\ NLPIdle /\ AppIdle /\ AuxIdle

\* one call of add_document_with_embeddings, its vector drawn from arrays
\* and the storage fault it meets from faults
AddDocumentFrom(arrays, faults) ==
    \E a \in arrays, fault \in faults :
        /\ db_call.op = "none"
        /\ connection.seq < MaxDocs
        /\ LET r == add_document_with_embeddings(connection, disk, ToBytes(a), fault)
           IN  /\ connection' = r.connection
               /\ disk' = r.disk
               /\ db_ret' = [raised |-> r.raised, document_id |-> r.document_id,
                             results |-> <<>>]
               /\ last_added' = IF r.raised THEN NoRow
                                ELSE [document_id |-> r.document_id,
                                      embedding |-> ToBytes(a)]
        /\ db_call' = [NoCall EXCEPT !.op = "add_document_with_embeddings",
                                     !.array = a, !.embedding = ToBytes(a),
                                     !.fault = fault]
        /\ UNCHANGED <<chunkVars, nlpVars, appVars, auxVars>>

AddDocument ==
    AddDocumentFrom(Arrays, {"none", "documents_insert", "embedding_insert", "commit"})

\* one call of semantic_search
SemanticSearchFrom(arrays, limits, thresholds, faults) ==
    \E a \in arrays, limit \in limits, threshold \in thresholds, fault \in faults :
        /\ db_call.op = "none"
        /\ connection.search_queries < MaxQueries
        /\ LET logged == log_search_query(connection, disk, fault)
               q == ToBytes(a)
           IN  /\ connection' = logged.connection
               /\ disk' = logged.disk
               /\ IF search_raises(q, fault)
                  THEN db_ret' = [raised |-> TRUE, document_id |-> 0, results |-> <<>>]
                  ELSE \E res \in semantic_search(logged.connection, q, limit,
                                                  threshold, fault) :
                          db_ret' = [raised |-> FALSE, document_id |-> 0,
                                     results |-> res]
        /\ db_call' = [op |-> "semantic_search", array |-> a, embedding |-> ToBytes(a),
                       limit |-> limit, distance_threshold |-> threshold,
                       fault |-> fault]
        /\ UNCHANGED last_added
        /\ UNCHANGED <<chunkVars, nlpVars, appVars, auxVars>>

SemanticSearch ==
    SemanticSearchFrom(Arrays, (-1)..MaxLimit, 0..MaxThreshold,
                       {"none", "log_insert", "log_commit", "select"})

\* the caller takes the value (or the exception) of the call it made
\* before it makes the next one
TakeResult ==
    /\ db_call.op # "none"
    /\ db_call' = NoCall
    /\ db_ret' = NoRet
    /\ last_added' = IF db_call.op = "semantic_search" THEN NoRow ELSE last_added
    /\ UNCHANGED <<connection, disk>>
    /\ UNCHANGED <<chunkVars, nlpVars, appVars, auxVars>>

DBNext == AddDocument \/ SemanticSearch \/ TakeResult

DBSpec == DBInit /\ [][DBNext]_vars

(* ----------------------------- chunker claims -------------------------- *)
ChunkDone == op = "chunk_document"
SmartDone == op = "create_smart_chunks"
ValidConfig == 0 <= overlap /\ overlap < chunk_size
Tokens == Split(content)
NumTokens == Len(Tokens)
ChunkTokens(k) == Split(chunks[k])

\* the k-th window (k = 1, 2, ...) of w for a window size and a step
Window(w, k, size, step) ==
    SubSeq(w, (k - 1) * step + 1, Min((k - 1) * step + size, Len(w)))

\* number of start positions 0, step, 2*step, ... below n
NumWindows(n, step) == (n + step - 1) \div step

\* C1: for a valid configuration chunk_document returns, in order, exactly
\* the windows w[i .. min(i+chunk_size, n)) for i = 0, step, 2*step, ... < n,
\* step = chunk_size - overlap; twelve words with chunk_size 5 and overlap 0
\* give chunks of 5, 5 and 2 words.
C1_SlidingWindows ==
    /\ (ChunkDone /\ ValidConfig) =>
          /\ raised = "none"
          /\ Len(chunks) = NumWindows(NumTokens, chunk_size - overlap)
          /\ \A k \in 1..Len(chunks) :
                ChunkTokens(k) = Window(Tokens, k, chunk_size, chunk_size - overlap)
    /\ (ChunkDone /\ content = TwelveWords /\ chunk_size = 5 /\ overlap = 0) =>
          /\ Len(chunks) = 3
          /\ <<Len(ChunkTokens(1)), Len(ChunkTokens(2)), Len(ChunkTokens(3))>> = <<5, 5, 2>>

C1_Witness ==
    /\ ChunkDone /\ ValidConfig /\ overlap >= 1
    /\ Len(chunks) >= 3
    /\ Len(ChunkTokens(Len(chunks))) < chunk_size

\* C2: an input of n tokens, 1 <= n < chunk_size, gives exactly one chunk
\* holding all n tokens, for every valid overlap.
C2_ShortInputOneChunk ==
    (ChunkDone /\ ValidConfig /\ 1 <= NumTokens /\ NumTokens < chunk_size) =>
        /\ Len(chunks) = 1
        /\ ChunkTokens(1) = Tokens

\* C3: with overlap >= chunk_size the chunker fails with an error and never
\* returns a chunk list.
C3_InvalidConfigurationRaises ==
    (ChunkDone /\ chunk_size >= 1 /\ overlap >= chunk_size) => raised # "none"

\* C4: no chunk exceeds the target size: at most chunk_size words from
\* chunk_document, at most chunk_size characters from create_smart_chunks.
C4_ChunksBounded ==
    /\ (ChunkDone /\ chunk_size >= 1) =>
          \A k \in 1..Len(chunks) : Len(ChunkTokens(k)) <= chunk_size
    /\ (SmartDone /\ chunk_size >= 1) =>
          \A k \in 1..Len(chunks) : Len(chunks[k]) <= chunk_size

\* the tokens of a chunk that do not overlap its predecessor
UniqueSpan(k) ==
    IF k = 1 THEN ChunkTokens(1)
    ELSE SubSeq(ChunkTokens(k), Min(overlap, Len(ChunkTokens(k))) + 1, Len(ChunkTokens(k)))

RECURSIVE ConcatSpans(_)
ConcatSpans(k) == IF k = 0 THEN <<>> ELSE ConcatSpans(k - 1) \o UniqueSpan(k)

\* C5: the first chunk followed by the non-overlapping tokens of each later
\* chunk, in chunk order, is exactly the original token stream.
C5_Coverage ==
    (ChunkDone /\ ValidConfig) => ConcatSpans(Len(chunks)) = Tokens

C5_Witness ==
    /\ ChunkDone /\ ValidConfig /\ overlap >= 1
    /\ Len(chunks) >= 2
    /\ NumTokens >= 3

\* C6: every two consecutive chunks, the last two included, share exactly
\* `overlap` tokens: the last `overlap` tokens of the earlier one are the
\* first `overlap` tokens of the later one.
C6_ConsecutiveOverlap ==
    (ChunkDone /\ ValidConfig) =>
        \A k \in 1..(Len(chunks) - 1) :
            LET a == ChunkTokens(k)
                b == ChunkTokens(k + 1)
            IN  /\ Len(a) >= overlap
                /\ Len(b) >= overlap
                /\ SubSeq(a, Len(a) - overlap + 1, Len(a)) = SubSeq(b, 1, overlap)

\* C7: chunk_document never emits an empty chunk: blank input gives zero
\* chunks and every returned chunk holds at least one token.
C7_NoEmptyChunk ==
    (ChunkDone /\ raised = "none") =>
        /\ Tokens = <<>> => chunks = <<>>
        /\ \A k \in 1..Len(chunks) : ChunkTokens(k) # <<>>

C7_Witness ==
    /\ ChunkDone /\ raised = "none"
    /\ Len(content) >= 2 /\ Tokens = <<>>
    /\ chunks = <<>>

(* --------------------------- vector index claims ----------------------- *)
AddDone == db_call.op = "add_document_with_embeddings"
SearchDone == db_call.op = "semantic_search"
EmbeddedIds(t) == {r.document_id : r \in t.document_embeddings}
ReturnedIds == {db_ret.results[i].document_id : i \in DOMAIN db_ret.results}

\* no orphan row on either side of the committed tables
NoOrphan ==
    /\ EmbeddedIds(disk) = disk.documents
    /\ \A r1, r2 \in disk.document_embeddings :
          r1.document_id = r2.document_id => r1 = r2

\* a call that raises leaves documents and document_embeddings untouched
FailedAddKeepsTables ==
    (db_call'.op = "add_document_with_embeddings" /\ db_ret'.raised) =>
        /\ disk'.documents = disk.documents
        /\ disk'.document_embeddings = disk.document_embeddings
        /\ connection'.documents = connection.documents
        /\ connection'.document_embeddings = connection.document_embeddings

\* C8: after any sequence of add_document_with_embeddings calls, failing at
\* the document write, the embedding write or the commit, the committed
\* tables hold a documents row d exactly when they hold an embedding row for
\* d, and a failed call leaves both tables as they were.
C8_InsertAtomic == []NoOrphan /\ [][FailedAddKeepsTables]_vars

C8_Witness ==
    /\ AddDone /\ db_ret.raised
    /\ db_call.fault = "embedding_insert"
    /\ disk.documents # {}
    /\ connection.documents = disk.documents

\* C9: with limit >= 1 semantic_search returns at most limit results, in
\* non-decreasing order of distance, and no stored vector left out is
\* closer to the query than a returned one.
C9_TopKAscending ==
    (SearchDone /\ db_call.limit >= 1) =>
        LET res == db_ret.results
        IN  /\ Len(res) <= db_call.limit
            /\ \A i, j \in DOMAIN res : i < j => res[i].distance <= res[j].distance
            /\ \A r \in connection.document_embeddings :
                  r.document_id \notin ReturnedIds =>
                      \A i \in DOMAIN res :
                          Distance(r.embedding, db_call.embedding) >= res[i].distance

C9_Witness ==
    /\ SearchDone /\ db_call.limit = 1
    /\ Len(db_ret.results) = 1
    /\ \E r \in connection.document_embeddings :
          /\ r.document_id \notin ReturnedIds
          /\ Distance(r.embedding, db_call.embedding) > db_ret.results[1].distance
          /\ Distance(r.embedding, db_call.embedding) < db_call.distance_threshold

\* C10: the distance filter drops exactly the results strictly beyond
\* max_distance: a stored vector at distance equal to max_distance is
\* returned unless the k cap is reached, one beyond it never is.
C10_ThresholdInclusive ==
    (SearchDone /\ db_call.fault # "select"
                /\ db_call.embedding.dim = embedding_dimension
                /\ db_call.limit >= 1 /\ db_call.distance_threshold >= 1) =>
        /\ \A i \in DOMAIN db_ret.results :
              db_ret.results[i].distance <= db_call.distance_threshold
        /\ \A r \in connection.document_embeddings :
              ( /\ r.document_id \in connection.documents
                /\ Distance(r.embedding, db_call.embedding) = db_call.distance_threshold
                /\ (db_call.limit < 0 \/ Len(db_ret.results) < db_call.limit) )
              => r.document_id \in ReturnedIds

\* the rows a search without failure has to choose from
Qualifying ==
    MatchingRows(connection, db_call.embedding, db_call.distance_threshold)

SearchFailed == SearchDone /\ SelectFails(db_call.embedding, db_call.fault)

\* C11: a failure of the search is seen by the caller as a raised error:
\* semantic_search returns [] only when no stored vector qualifies.
C11_FailureIsRaised ==
    (/\ SearchDone
     /\ db_call.embedding.dim = embedding_dimension
     /\ db_call.limit >= 1
     /\ ~db_ret.raised
     /\ db_ret.results = <<>>) => Qualifying = {}

\* the search that directly follows a successful insert and queries with
\* the inserted vector
RoundTrip ==
    /\ SearchDone
    /\ last_added # NoRow
    /\ db_call.embedding = last_added.embedding
    /\ db_call.limit >= 1
    /\ db_call.distance_threshold >= 1
    /\ ~SearchFailed

\* stored vectors of other documents at distance 0 from the query
Twins ==
    {r \in Qualifying :
        /\ r.document_id # last_added.document_id
        /\ Distance(r.embedding, db_call.embedding) = 0}

C14_DimensionEnforced ==
    /\ \A r \in disk.document_embeddings \cup connection.document_embeddings :
          r.embedding.dim = embedding_dimension
    /\ (AddDone /\ db_call.array.len # embedding_dimension) =>
          /\ db_ret.raised
          /\ connection.seq \notin connection.documents

\* C15: every result of semantic_search names a document that has a row in
\* the documents table at that moment.
C15_NoDanglingResult ==
    SearchDone =>
        \A i \in DOMAIN db_ret.results :
            db_ret.results[i].document_id \in connection.documents

C15_Witness ==
    /\ SearchDone
    /\ Len(db_ret.results) = 2
    /\ Cardinality(connection.documents) = 2

\* C16: of two stored vectors at the same distance from the query the one
\* inserted earlier is returned first.
C16_TiesByInsertionOrder ==
    (SearchDone /\ db_call.limit >= 1) =>
        \A i, j \in DOMAIN db_ret.results :
            (i < j /\ db_ret.results[i].distance = db_ret.results[j].distance)
                => db_ret.results[i].document_id < db_ret.results[j].document_id

(* ------------------------- embedding generator ------------------------- *)
\* the texts a caller passes, told apart by number
Texts == 1..MaxTexts

Batches == UNION {[1..n -> Texts] : n \in 0..MaxBatch}

EmbeddingModels ==
    {DefaultEmbeddingModel, "sentence-transformers/all-mpnet-base-v2"}

\* the length of the vectors SentenceTransformer(embedding_model) encodes to
SentenceEmbeddingDimension(m) == IF m = DefaultEmbeddingModel THEN 384 ELSE 768

\* np.zeros(384, dtype=np.float32)
np_zeros == [len |-> 384, itemsize |-> 4, x |-> 0]

\* self.embedder.encode(texts) raises when the encoder fails on one of them
encode_raises(bad, texts) == \E i \in DOMAIN texts : texts[i] \in bad

\* self.embedder.encode(texts), as float32 arrays: one vector per text
encode(m, texts) ==
    [i \in DOMAIN texts |->
        [len |-> SentenceEmbeddingDimension(m), itemsize |-> 4, x |-> texts[i]]]

generate_embeddings(m, bad, text) ==
    IF encode_raises(bad, <<text>>)
    THEN [raised |-> FALSE, vectors |-> <<np_zeros>>]
    ELSE [raised |-> FALSE, vectors |-> <<encode(m, <<text>>)[1]>>]

generate_batch_embeddings(m, bad, texts) ==
    IF encode_raises(bad, texts)
    THEN [raised |-> FALSE, vectors |-> [i \in DOMAIN texts |-> np_zeros]]
    ELSE [raised |-> FALSE, vectors |-> encode(m, texts)]

NLPInit ==
    /\ embedding_model_name \in EmbeddingModels
    /\ failing \in SUBSET Texts
    /\ nlp_call = NoNLPCall
    /\ nlp_ret = NoNLPRet
    /\ ChunkIdle
    /\ DBIdle
    /\ AppIdle
    /\ AuxIdle

GenerateEmbeddings ==
    \E text \in Texts :
        /\ nlp_call' = [op |-> "generate_embeddings", texts |-> <<text>>]
        /\ nlp_ret' = generate_embeddings(embedding_model_name, failing, text)
        /\ UNCHANGED <<embedding_model_name, failing>>
        /\ UNCHANGED <<chunkVars, dbVars, appVars, auxVars>>

GenerateBatchEmbeddings ==
    \E texts \in Batches :
        /\ nlp_call' = [op |-> "generate_batch_embeddings", texts |-> texts]
        /\ nlp_ret' = generate_batch_embeddings(embedding_model_name, failing, texts)
        /\ UNCHANGED <<embedding_model_name, failing>>
        /\ UNCHANGED <<chunkVars, dbVars, appVars, auxVars>>

NLPNext == GenerateEmbeddings \/ GenerateBatchEmbeddings

NLPSpec == NLPInit /\ [][NLPNext]_vars

(* ---------------------- embedding generator: claims -------------------- *)
EmbedDone == nlp_call.op = "generate_embeddings"
BatchDone == nlp_call.op = "generate_batch_embeddings"

\* C17: when the encoder fails on a text, generate_embeddings and
\* generate_batch_embeddings signal the failure to the caller and return no
\* vector for that text.
C17_FailureSignalled ==
    ((EmbedDone \/ BatchDone) /\ encode_raises(failing, nlp_call.texts))
        => nlp_ret.raised

\* C18: every vector generate_embeddings returns, on success and on the
\* error path alike, has the length of the vectors of the embedding model
\* the processor was built with.
C18_LengthFixedByModel ==
    (EmbedDone /\ ~nlp_ret.raised) =>
        nlp_ret.vectors[1].len = SentenceEmbeddingDimension(embedding_model_name)

\* C19: generate_batch_embeddings(texts)[i] is the vector that
\* generate_embeddings(texts[i]) returns, for every i, also when the encoder
\* fails on some of the texts only.
C19_BatchIsElementwise ==
    (BatchDone /\ ~nlp_ret.raised) =>
        /\ Len(nlp_ret.vectors) = Len(nlp_call.texts)
        /\ \A i \in DOMAIN nlp_call.texts :
              nlp_ret.vectors[i] =
                  generate_embeddings(embedding_model_name, failing,
                                      nlp_call.texts[i]).vectors[1]

(* ------------------------ backend: upload and search ------------------- *)
AppAlphabet == {"a", "A", " "}

AppStrings == UNION {[1..n -> AppAlphabet] : n \in 0..MaxContent}

\* the name of the n-th file a client uploads
FileName(n) == "f" \o ToString(n)

\* str.lower()
Lower(s) == [i \in DOMAIN s |-> IF s[i] = "A" THEN "a" ELSE s[i]]

\* `sub in s` for two str
Contains(sub, s) ==
    \E i \in 0..(Len(s) - Len(sub)) : SubSeq(s, i + 1, i + Len(sub)) = sub

\* ws[:n]
PyHead(ws, n) ==
    IF n < 0 THEN SubSeq(ws, 1, Max(0, Len(ws) + n))
    ELSE SubSeq(ws, 1, Min(n, Len(ws)))

\* the steps of upload_document that may raise: content.split(), detect()
\* and chunk_document(); detect() sits in its own try / except
UploadFaults == {"none", "split", "detect", "chunk_document"}

\* except Exception: raise HTTPException(status_code=500, ...)
UploadFailed(docs) ==
    [documents |-> docs, status |-> 500, body |-> [detail |-> "error"]]

\* an upload that appends the record before its chunks are computed
upload_document_AppendsFirst(docs, filename, text, fault) ==
    IF fault = "none" \/ fault = "detect"
    THEN [documents |-> Append(docs,
              [document_id |-> Len(docs), filename |-> filename,
               content |-> text, chunks |-> chunk_document(text, 500, 50).chunks,
               word_count |-> Len(Split(text)),
               language |-> IF fault = "detect" THEN "unknown" ELSE "en",
               processed |-> TRUE]),
          status |-> 200,
          body |-> [document_id |-> Len(docs), filename |-> filename,
                    language |-> IF fault = "detect" THEN "unknown" ELSE "en",
                    word_count |-> Len(Split(text)),
                    chunks_created |-> Len(chunk_document(text, 500, 50).chunks),
                    status |-> "processed"]]
    ELSE [documents |-> Append(docs,
              [document_id |-> Len(docs), filename |-> filename,
               content |-> text, chunks |-> <<>>,
               word_count |-> 0, language |-> "en", processed |-> FALSE]),
          status |-> 500, body |-> [detail |-> "error"]]

\* upload_document: the document appended to model_state.documents and the
\* response (the time stamp in document_id and uploaded_at is left out)
upload_document(docs, filename, text, fault) ==
    IF fault = "split" \/ fault = "chunk_document"
    THEN UploadFailed(docs)
    ELSE
    LET doc_chunks == chunk_document(text, 500, 50).chunks
        doc_id == Len(docs)
        detected_lang == IF fault = "detect" THEN "unknown" ELSE "en"
        document == [document_id |-> doc_id, filename |-> filename,
                     content |-> text, chunks |-> doc_chunks,
                     word_count |-> Len(Split(text)),
                     language |-> detected_lang, processed |-> TRUE]
    IN  [documents |-> Append(docs, document),
         status |-> 200,
         body |-> [document_id |-> doc_id, filename |-> filename,
                   language |-> detected_lang,
                   word_count |-> Len(Split(text)),
                   chunks_created |-> Len(doc_chunks), status |-> "processed"]]

\* the chunks of doc that hold the lowered query
Matches(doc, query_lower) ==
    SelectSeq(doc.chunks, LAMBDA c : Contains(query_lower, Lower(c)))

relevance_score(n) == Min(85 + n * 10, 100)

SearchHit(doc, matches) ==
    [filename |-> doc.filename,
     content_preview |-> IF matches[1] # <<>>
                         THEN PyHead(matches[1], 200) \o <<".", ".", ".">>
                         ELSE <<>>,
     relevance_score |-> relevance_score(Len(matches)),
     matches |-> Len(matches)]

\* the loop over model_state.documents: one result per document with a match
RECURSIVE ScanDocuments(_, _)
ScanDocuments(docs, query_lower) ==
    IF docs = <<>> THEN <<>>
    ELSE LET matches == Matches(Head(docs), query_lower)
             rest == ScanDocuments(Tail(docs), query_lower)
         IN  IF matches # <<>> THEN <<SearchHit(Head(docs), matches)>> \o rest
             ELSE rest

\* place r behind the results that score at least as high
RECURSIVE InsertByRelevance(_, _)
InsertByRelevance(sorted, r) ==
    IF sorted = <<>> THEN <<r>>
    ELSE IF Head(sorted).relevance_score >= r.relevance_score
         THEN <<Head(sorted)>> \o InsertByRelevance(Tail(sorted), r)
         ELSE <<r>> \o sorted

\* results.sort(key=relevance_score, reverse=True): a stable sort
RECURSIVE SortByRelevance(_, _)
SortByRelevance(sorted, results) ==
    IF results = <<>> THEN sorted
    ELSE SortByRelevance(InsertByRelevance(sorted, Head(results)), Tail(results))

search_documents(docs, query, limit) ==
    IF docs = <<>>
    THEN [status |-> 200,
          body |-> [results |-> <<>>, message |-> "No documents uploaded yet"]]
    ELSE LET results == SortByRelevance(<<>>, ScanDocuments(docs, Lower(query)))
         IN  [status |-> 200,
              body |-> [results |-> PyHead(results, limit),
                        total_documents |-> Len(docs),
                        query |-> query]]

AppInit ==
    /\ documents = <<>>
    /\ embedding_model \in {"None", "all-MiniLM-L6-v2"}
    /\ app_call = NoAppCall
    /\ app_ret = NoAppRet
    /\ ChunkIdle
    /\ DBIdle
    /\ NLPIdle
    /\ AuxIdle

\* one POST /documents, its content drawn from texts
UploadDocumentFrom(texts, faults, most) ==
    \E text \in texts, fault \in faults :
        /\ app_call.op = "none"
        /\ LET filename == FileName(Len(documents) + 1)
               r == upload_document(documents, filename, text, fault)
           IN  /\ Len(r.documents) <= most
               /\ documents' = r.documents
               /\ app_ret' = [status |-> r.status, body |-> r.body]
               /\ app_call' = [NoAppCall EXCEPT !.op = "upload_document",
                                                !.filename = filename,
                                                !.content = text,
                                                !.fault = fault]
        /\ UNCHANGED embedding_model
        /\ UNCHANGED <<chunkVars, dbVars, nlpVars, auxVars>>

UploadDocument == UploadDocumentFrom(AppStrings, UploadFaults, MaxUploads)

SearchDocuments ==
    \E query \in AppStrings, limit \in (-1)..MaxLimit :
        /\ app_call.op = "none"
        /\ app_ret' = search_documents(documents, query, limit)
        /\ app_call' = [NoAppCall EXCEPT !.op = "search_documents",
                                         !.query = query, !.limit = limit]
        /\ UNCHANGED <<documents, embedding_model>>
        /\ UNCHANGED <<chunkVars, dbVars, nlpVars, auxVars>>

\* the response is sent and the server waits for the next request
Respond ==
    /\ app_call.op # "none"
    /\ app_call' = NoAppCall
    /\ app_ret' = NoAppRet
    /\ UNCHANGED <<documents, embedding_model>>
    /\ UNCHANGED <<chunkVars, dbVars, nlpVars, auxVars>>

AppNext == UploadDocument \/ SearchDocuments \/ Respond

AppSpec == AppInit /\ [][AppNext]_vars

(* the repository's two search services: a process runs either the vector *)
(* index or the backend                                                   *)
RepoInit == AppInit

AppAtRest == documents = <<>> /\ app_call = NoAppCall

RepoNext == (AppAtRest /\ DBNext) \/ (DBIdle /\ AppNext)

RepoSpec == RepoInit /\ [][RepoNext]_vars

(* ----------------------------- search: claims -------------------------- *)
KeywordSearchDone == app_call.op = "search_documents"

\* C12: a search of an empty index returns [] and does not raise, for every
\* query vector, limit and threshold; the keyword search over an empty
\* document store does the same.
C12_EmptyIndexReturnsNothing ==
    /\ (SearchDone /\ connection.document_embeddings = {}) =>
          /\ ~db_ret.raised
          /\ db_ret.results = <<>>
    /\ (KeywordSearchDone /\ documents = <<>>) =>
          /\ app_ret.status = 200
          /\ app_ret.body.results = <<>>

C12_Witness ==
    /\ SearchDone
    /\ connection.document_embeddings = {}
    /\ db_call.embedding.dim # embedding_dimension
    /\ db_call.limit >= 1
    /\ db_call.distance_threshold >= 1
    /\ db_ret.results = <<>>

\* C20: a search answers without raising and its response carries the
\* field degraded, true when the embedding backend failed and false
\* otherwise.
C20_DegradedFlag ==
    (KeywordSearchDone /\ documents # <<>> /\ app_call.limit >= 1) =>
        /\ app_ret.status = 200
        /\ "degraded" \in DOMAIN app_ret.body
        /\ app_ret.body.degraded = (embedding_model = "None")

(* ------------------------------ upload: claims ------------------------- *)
UploadDone == app_call.op = "upload_document"

\* what an upload that has just answered did to model_state.documents
UploadIsAllOrNothing ==
    UploadDone' =>
        IF app_ret'.status = 200
        THEN /\ Len(documents') = Len(documents) + 1
             /\ SubSeq(documents', 1, Len(documents)) = documents
             /\ documents'[Len(documents')].filename = app_call'.filename
             /\ documents'[Len(documents')].content = app_call'.content
             /\ documents'[Len(documents')].chunks =
                    chunk_document(app_call'.content, 500, 50).chunks
        ELSE documents' = documents

\* every keyword search result comes from a stored document
ResultsFromStoredDocuments ==
    KeywordSearchDone =>
        \A i \in DOMAIN app_ret.body.results :
            \E j \in DOMAIN documents :
                /\ documents[j].filename = app_ret.body.results[i].filename
                /\ documents[j].chunks # <<>>

FarArrays == [len : {embedding_dimension}, itemsize : {4}, x : 0..MaxFar]

AddDocumentFar == AddDocumentFrom(FarArrays, {"none"})

SemanticSearchFar ==
    SemanticSearchFrom(FarArrays, {1, MaxLimit}, 0..(MaxFar + 1), {"none"})

ScoreNext == AddDocumentFar \/ SemanticSearchFar \/ TakeResult

ScoreSpec == DBInit /\ [][ScoreNext]_vars

\* C22: every result of semantic_search has similarity_score =
\* max(0, 1 - distance), the score lies in [0, 1], and of two results the one
\* with the smaller distance never has the smaller score.
C22_SimilarityFromDistance ==
    SearchDone =>
        /\ \A i \in DOMAIN db_ret.results :
              /\ db_ret.results[i].similarity_score =
                     Max(0, Unit - db_ret.results[i].distance)
              /\ db_ret.results[i].similarity_score \in 0..Unit
        /\ \A i, j \in DOMAIN db_ret.results :
              db_ret.results[i].distance < db_ret.results[j].distance =>
                  db_ret.results[i].similarity_score >=
                      db_ret.results[j].similarity_score

C22_Witness ==
    /\ SearchDone
    /\ Len(db_ret.results) = 2
    /\ db_ret.results[1].distance < Unit
    /\ db_ret.results[1].similarity_score > 0
    /\ db_ret.results[2].distance > Unit
    /\ db_ret.results[2].similarity_score = 0

(* ----------------- keyword search over several-word texts -------------- *)
\* a text of n one-letter words
WordsText(n) == [i \in 1..(2 * n - 1) |-> IF i % 2 = 1 THEN "a" ELSE " "]

WordsTexts == {WordsText(n) : n \in 1..MaxWords}

\* s.count(sub): occurrences that do not overlap, from the left, at or
\* after position i
RECURSIVE CountFrom(_, _, _)
CountFrom(sub, s, i) ==
    IF sub = <<>> THEN Len(s) + 2 - i
    ELSE IF i + Len(sub) - 1 > Len(s) THEN 0
    ELSE IF SubSeq(s, i, i + Len(sub) - 1) = sub
         THEN 1 + CountFrom(sub, s, i + Len(sub))
         ELSE CountFrom(sub, s, i + 1)

\* s.find(sub) for a sub that occurs in s, as a 0-based index
Find(sub, s) ==
    CHOOSE i \in 0..(Len(s) - Len(sub)) :
        /\ SubSeq(s, i + 1, i + Len(sub)) = sub
        /\ \A j \in 0..(i - 1) : SubSeq(s, j + 1, j + Len(sub)) # sub

\* the result fixed_backend's search builds for a document holding the query
FixedSearchHit(doc, query_lower) ==
    LET content_lower == Lower(doc.content)
        matches == CountFrom(query_lower, content_lower, 1)
        start == Find(query_lower, content_lower)
    IN  [filename |-> doc.filename,
         content_preview |-> SubSeq(doc.content, Max(0, start - 50) + 1,
                                    Min(Len(doc.content), start + 200)),
         relevance_score |-> Min(90, 60 + matches * 10),
         matches |-> matches]

RECURSIVE FixedScanDocuments(_, _)
FixedScanDocuments(docs, query_lower) ==
    IF docs = <<>> THEN <<>>
    ELSE LET rest == FixedScanDocuments(Tail(docs), query_lower)
         IN  IF Contains(query_lower, Lower(Head(docs).content))
             THEN <<FixedSearchHit(Head(docs), query_lower)>> \o rest
             ELSE rest

\* search_documents of fixed_backend.py, the variant of the backend that
\* counts the occurrences of the query in the whole document
fixed_search_documents(docs, query, limit) ==
    IF docs = <<>>
    THEN [status |-> 200,
          body |-> [results |-> <<>>, total_documents |-> 0, query |-> query]]
    ELSE LET results ==
                 SortByRelevance(<<>>, FixedScanDocuments(docs, Lower(query)))
         IN  [status |-> 200,
              body |-> [results |-> PyHead(results, limit),
                        total_documents |-> Len(docs),
                        query |-> query]]

UploadWords == UploadDocumentFrom(WordsTexts, {"none"}, MaxRanked)

FixedSearchDocuments ==
    \E query \in AppStrings, limit \in (-1)..MaxLimit :
        /\ app_call.op = "none"
        /\ app_ret' = fixed_search_documents(documents, query, limit)
        /\ app_call' = [NoAppCall EXCEPT !.op = "fixed_search_documents",
                                         !.query = query, !.limit = limit]
        /\ UNCHANGED <<documents, embedding_model>>
        /\ UNCHANGED <<chunkVars, dbVars, nlpVars, auxVars>>

RankNext == UploadWords \/ SearchDocuments \/ FixedSearchDocuments \/ Respond

RankSpec == AppInit /\ [][RankNext]_vars

AnySearchDone == app_call.op \in {"search_documents", "fixed_search_documents"}

\* C23: the keyword search ignores case and ranks by the number of matches:
\* a document with more matches of the query is never placed below one with
\* fewer, whatever the numbers of matches and the order of the uploads.
C23_RankedByMatches ==
    (AnySearchDone /\ app_call.limit >= 2 /\ app_call.query # <<>>) =>
        \A i, j \in DOMAIN app_ret.body.results :
            i < j => app_ret.body.results[i].matches >= app_ret.body.results[j].matches

(* ------------------ two threads on one database object ----------------- *)
\* sqlite3.connect(self.db_path) keeps check_same_thread at its default: no
\* thread but the one that made the connection is let through
SameThread_Unchecked(t) == TRUE

\* the test sqlite3 makes on every use of the connection and its cursors
SameThread(t) == t = "main"

\* the frame of a step of thread t that touches the tables
ThreadFrame ==
    /\ UNCHANGED <<db_call, db_ret, last_added>>
    /\ UNCHANGED <<chunkVars, nlpVars, appVars, rlVars, cacheVars, chatVars>>

\* cursor = self.connection.cursor(), ahead of the try block: a thread that
\* is turned away raises ProgrammingError before any statement
StartAdd(t) ==
    \E a \in FarArrays, fault \in {"none", "embedding_insert", "commit"} :
        /\ calls[t].pc = "idle"
        /\ connection.seq < MaxDocs
        /\ calls' = [calls EXCEPT ![t] =
               [op |-> "add_document_with_embeddings",
                pc |-> IF SameThread(t) THEN "insert_document" ELSE "raised",
                fault |-> fault, embedding |-> ToBytes(a), document_id |-> 0]]
        /\ UNCHANGED <<connection, disk>>
        /\ ThreadFrame

AddInsertDocument(t) ==
    /\ calls[t].pc = "insert_document"
    /\ connection' = InsertDocument(connection)
    /\ calls' = [calls EXCEPT ![t].pc = "insert_embedding",
                              ![t].document_id = connection'.seq]
    /\ UNCHANGED disk
    /\ ThreadFrame

AddInsertEmbedding(t) ==
    /\ calls[t].pc = "insert_embedding"
    /\ IF \/ calls[t].fault = "embedding_insert"
          \/ EmbeddingRejected(connection, calls[t].document_id, calls[t].embedding)
       THEN /\ calls' = [calls EXCEPT ![t].pc = "rollback"]
            /\ UNCHANGED connection
       ELSE /\ connection' = InsertEmbedding(connection, calls[t].document_id,
                                             calls[t].embedding)
            /\ calls' = [calls EXCEPT ![t].pc = "commit"]
    /\ UNCHANGED disk
    /\ ThreadFrame

\* self.connection.commit() commits everything the connection has written
AddCommit(t) ==
    /\ calls[t].pc = "commit"
    /\ IF calls[t].fault = "commit"
       THEN /\ calls' = [calls EXCEPT ![t].pc = "rollback"]
            /\ UNCHANGED disk
       ELSE /\ disk' = connection
            /\ calls' = [calls EXCEPT ![t].pc = "returned"]
    /\ UNCHANGED connection
    /\ ThreadFrame

\* except Exception: self.connection.rollback(); raise
AddRollback(t) ==
    /\ calls[t].pc = "rollback"
    /\ connection' = Rollback(connection, disk)
    /\ calls' = [calls EXCEPT ![t].pc = "raised"]
    /\ UNCHANGED disk
    /\ ThreadFrame

StartSearch(t) ==
    /\ calls[t].pc = "idle"
    /\ connection.search_queries < MaxQueries
    /\ calls' = [calls EXCEPT ![t] =
           [NoThreadCall EXCEPT !.op = "semantic_search",
                                !.pc = IF SameThread(t) THEN "log_insert"
                                       ELSE "raised"]]
    /\ UNCHANGED <<connection, disk>>
    /\ ThreadFrame

\* _log_search_query: INSERT INTO search_queries
SearchLogInsert(t) ==
    /\ calls[t].pc = "log_insert"
    /\ connection' = [connection EXCEPT !.search_queries = @ + 1]
    /\ calls' = [calls EXCEPT ![t].pc = "log_commit"]
    /\ UNCHANGED disk
    /\ ThreadFrame

\* _log_search_query: self.connection.commit()
SearchLogCommit(t) ==
    /\ calls[t].pc = "log_commit"
    /\ disk' = connection
    /\ calls' = [calls EXCEPT ![t].pc = "select"]
    /\ UNCHANGED connection
    /\ ThreadFrame

SearchSelect(t) ==
    /\ calls[t].pc = "select"
    /\ calls' = [calls EXCEPT ![t].pc = "returned"]
    /\ UNCHANGED <<connection, disk>>
    /\ ThreadFrame

\* the call is over: the thread is free for the next one
ThreadDone(t) ==
    /\ calls[t].pc \in {"returned", "raised"}
    /\ calls' = [calls EXCEPT ![t] = NoThreadCall]
    /\ UNCHANGED <<connection, disk>>
    /\ ThreadFrame

ConcNext ==
    \E t \in Threads :
        \/ StartAdd(t)
        \/ AddInsertDocument(t)
        \/ AddInsertEmbedding(t)
        \/ AddCommit(t)
        \/ AddRollback(t)
        \/ StartSearch(t)
        \/ SearchLogInsert(t)
        \/ SearchLogCommit(t)
        \/ SearchSelect(t)
        \/ ThreadDone(t)

ConcSpec == DBInit /\ [][ConcNext]_vars

(* --------------------------- threads: claims --------------------------- *)
Adding(t) == calls[t].op = "add_document_with_embeddings"

HasEmbedding(tables, id) ==
    \E r \in tables.document_embeddings : r.document_id = id

\* the rows an add has written so far are still there, and the rows of an
\* add that returned are committed
WritesKept ==
    \A t \in Threads :
        Adding(t) =>
            /\ calls[t].pc \in {"insert_embedding", "commit"} =>
                  calls[t].document_id \in connection.documents
            /\ calls[t].pc = "commit" =>
                  HasEmbedding(connection, calls[t].document_id)
            /\ calls[t].pc = "returned" =>
                  /\ calls[t].document_id \in disk.documents
                  /\ HasEmbedding(disk, calls[t].document_id)

\* C24: however two add_document_with_embeddings calls and semantic_search
\* calls on one database object interleave, no committed state holds a
\* document row without its embedding, and the rollback of a failing call
\* neither discards nor half-keeps what the other call wrote.
C24_InterleavedInsertsAtomic ==
    /\ \A id \in disk.documents : HasEmbedding(disk, id)
    /\ WritesKept

C24_Witness ==
    /\ Adding("main")
    /\ calls["main"].pc = "insert_embedding"
    /\ calls["worker"].op = "semantic_search"
    /\ calls["worker"].pc = "raised"

(* ------------------------------ rate limiter --------------------------- *)
\* pipeline.zremrangebyscore(key, 0, current_time - window)
ZRemRangeByScore(z, lo, hi) == {m \in z : ~(lo <= m /\ m <= hi)}

\* pipeline.zadd(key, {str(current_time): current_time}): the member is the
\* time itself, so a second request at the same time adds nothing
ZAdd(z, t) == z \cup {t}

\* the sorted set as Redis holds it at time t: a key past its expiry is gone
Stored(z, expiry, t) == IF z # {} /\ t >= expiry THEN {} ELSE z

\* self.client.zrange(key, 0, 0, withscores=True)[0][1]
Oldest(z) == CHOOSE m \in z : \A n \in z : m <= n

\* a limiter that turns requests away when Redis fails
FailOpen_Closed(limit, window, t) ==
    [allowed |-> FALSE, remaining |-> 0, reset |-> t + window, raised |-> FALSE]

\* return True, {"remaining": limit, "reset": time.time() + window}
FailOpen(limit, window, t) ==
    [allowed |-> TRUE, remaining |-> limit, reset |-> t + window, raised |-> FALSE]

\* the Redis operations of is_allowed that may raise: the pipeline before
\* Redis ran it, the pipeline after Redis ran it (the reply is lost), and the
\* zrange of the denial branch
RedisFaults == {"none", "pipeline", "pipeline_reply", "zrange"}

\* is_allowed(key, limit, window) at time t: the answer, the sorted set,
\* and whether a Redis operation raised
is_allowed(has_client, z, expiry, limit, window, t, fault) ==
    IF ~has_client
    THEN [ret |-> FailOpen(limit, window, t), zset |-> z, expire_at |-> expiry,
          redis_error |-> FALSE]
    ELSE IF fault = "pipeline"
    THEN [ret |-> FailOpen(limit, window, t), zset |-> z, expire_at |-> expiry,
          redis_error |-> TRUE]
    ELSE
    LET kept == ZRemRangeByScore(Stored(z, expiry, t), 0, t - window)
        current_requests == Cardinality(kept)
        added == ZAdd(kept, t)
    IN  IF fault = "pipeline_reply"
        THEN [ret |-> FailOpen(limit, window, t), zset |-> added,
              expire_at |-> t + window, redis_error |-> TRUE]
        ELSE IF current_requests < limit
        THEN [ret |-> [allowed |-> TRUE,
                       remaining |-> limit - current_requests - 1,
                       reset |-> t + window, raised |-> FALSE],
              zset |-> added, expire_at |-> t + window, redis_error |-> FALSE]
        ELSE IF fault = "zrange"
        THEN [ret |-> FailOpen(limit, window, t), zset |-> added,
              expire_at |-> t + window, redis_error |-> TRUE]
        ELSE [ret |-> [allowed |-> FALSE, remaining |-> 0,
                       reset |-> Oldest(added) + window, raised |-> FALSE],
              zset |-> added, expire_at |-> t + window, redis_error |-> FALSE]

\* RateLimitMiddleware.__call__: 429 for a request that is not allowed
MiddlewareStatus(ret) == IF ret.allowed THEN 200 ELSE 429

RLInit ==
    /\ rl_client \in BOOLEAN
    /\ rl_limit \in 1..MaxRate
    /\ rl_window \in 1..MaxWindow
    /\ RLFresh
    /\ ConcIdle
    /\ CacheIdle
    /\ ChatIdle
    /\ ChunkIdle
    /\ DBIdle
    /\ NLPIdle
    /\ AppIdle

\* one request of the client at a time t that is not before the last one
Request ==
    \E t \in now..MaxTime, fault \in RedisFaults :
        /\ Len(allowed_times) < MaxCalls
        /\ LET r == is_allowed(rl_client, zset, expire_at, rl_limit, rl_window,
                               t, fault)
           IN  /\ zset' = r.zset
               /\ expire_at' = r.expire_at
               /\ rl_ret' = [allowed |-> r.ret.allowed,
                             remaining |-> r.ret.remaining,
                             reset |-> r.ret.reset, raised |-> r.ret.raised,
                             status |-> MiddlewareStatus(r.ret),
                             redis_error |-> r.redis_error]
               /\ allowed_times' = IF r.ret.allowed THEN Append(allowed_times, t)
                                   ELSE allowed_times
               /\ redis_failed' = (redis_failed \/ r.redis_error)
        /\ now' = t
        /\ rl_call' = [op |-> "is_allowed", time |-> t, fault |-> fault]
        /\ UNCHANGED <<rl_client, rl_limit, rl_window>>
        /\ UNCHANGED <<chunkVars, dbVars, nlpVars, appVars, concVars, cacheVars,
                       chatVars>>

RLNext == Request

RLSpec == RLInit /\ [][RLNext]_vars

(* -------------------------- rate limiter: claims ----------------------- *)
RequestDone == rl_call.op = "is_allowed"

\* the requests let through at a time in the window of length rl_window
\* that ends at s
AllowedInWindow(s) ==
    Cardinality({i \in DOMAIN allowed_times :
                    s - rl_window < allowed_times[i] /\ allowed_times[i] <= s})

\* C25: with Redis available, the requests answered allowed whose times lie
\* in one interval of length window are never more than limit, also when
\* several requests carry the same time.
C25_AtMostLimitPerWindow ==
    (rl_client /\ ~redis_failed) =>
        \A s \in 0..MaxTime : AllowedInWindow(s) <= rl_limit

\* C26: after a denial that reported the reset time R, the next request of
\* the client, made at or after R, is allowed.
C26_ResetTimeHonoured ==
    [][(/\ RequestDone
        /\ ~rl_ret.allowed
        /\ rl_client
        /\ ~redis_failed'
        /\ now' >= rl_ret.reset) => rl_ret'.allowed]_vars

\* C27: when the Redis client is absent or a Redis operation raises,
\* is_allowed answers allowed with remaining = limit and does not raise, and
\* the middleware does not answer 429.
C27_FailsOpen ==
    (RequestDone /\ (~rl_client \/ rl_ret.redis_error)) =>
        /\ rl_ret.allowed
        /\ rl_ret.remaining = rl_limit
        /\ ~rl_ret.raised
        /\ rl_ret.status # 429

C27_Witness ==
    /\ RequestDone
    /\ rl_client
    /\ rl_call.fault = "zrange"
    /\ rl_ret.redis_error
    /\ Cardinality(zset) > rl_limit
    /\ rl_ret.allowed

(* ---------------------------------- cache ------------------------------ *)
\* what the wrapped function may return: None, an int, a tuple
ReturnValues == {"None", "1", "(1, 2)"}

\* json.dumps(value, default=str)
Dumps(v) ==
    CASE v = "None" -> "null"
      [] v = "(1, 2)" -> "[1, 2]"
      [] OTHER -> v

\* json.loads(value.decode())
Loads(b) == IF b = "null" THEN "None" ELSE b

\* self.client.get(key) at time t: nothing once the entry has expired
RedisGet(entry, t) == IF entry.present /\ t < entry.expires THEN entry ELSE NoEntry

\* RedisCache.get: None when the client is absent, the key is missing or
\* Redis raises
cache_get(has_client, entry, t, fault) ==
    IF ~has_client \/ fault = "get" \/ ~RedisGet(entry, t).present
    THEN "None"
    ELSE Loads(RedisGet(entry, t).value)

\* RedisCache.set: setex(key, ttl, serialized) unless Redis raises
cache_set(has_client, entry, v, seconds, t, fault) ==
    IF ~has_client \/ fault = "set" THEN entry
    ELSE [present |-> TRUE, value |-> Dumps(v), expires |-> t + seconds]

\* if cached_result is not None
IsHit(has_client, entry, t, fault) == cache_get(has_client, entry, t, fault) # "None"

\* the wrapper of @cached called at time t, the wrapped function returning
\* result when it runs
wrapper(has_client, skip, entry, seconds, t, result, fault) ==
    IF skip \/ ~has_client
    THEN [value |-> result, executed |-> TRUE, entry |-> entry]
    ELSE IF IsHit(has_client, entry, t, fault)
    THEN [value |-> cache_get(has_client, entry, t, fault), executed |-> FALSE,
          entry |-> entry]
    ELSE [value |-> result, executed |-> TRUE,
          entry |-> cache_set(has_client, entry, result, seconds, t, fault)]

CacheInit ==
    /\ cache_client \in BOOLEAN
    /\ skip_cache \in BOOLEAN
    /\ ttl \in 1..MaxTtl
    /\ CacheFresh
    /\ ConcIdle
    /\ RLIdle
    /\ ChatIdle
    /\ ChunkIdle
    /\ DBIdle
    /\ NLPIdle
    /\ AppIdle

CachedCall ==
    \E a \in CacheArgs, t \in cache_now..MaxTime, result \in ReturnValues,
       fault \in {"none", "get", "set"} :
        /\ executions < MaxCalls
        /\ LET r == wrapper(cache_client, skip_cache, store[a], ttl, t, result, fault)
           IN  /\ store' = [store EXCEPT ![a] = r.entry]
               /\ executions' = IF r.executed THEN executions + 1 ELSE executions
               /\ cache_ret' = [value |-> r.value, executed |-> r.executed]
        /\ cache_now' = t
        /\ cache_call' = [op |-> "cached", args |-> a, fault |-> fault, time |-> t]
        /\ UNCHANGED <<cache_client, skip_cache, ttl>>
        /\ UNCHANGED <<chunkVars, dbVars, nlpVars, appVars, concVars, rlVars,
                       chatVars>>

CacheNext == CachedCall

CacheSpec == CacheInit /\ [][CacheNext]_vars

(* ------------------------------ cache: claims -------------------------- *)
\* the call just made found, for its arguments, a result that an earlier
\* call stored and whose ttl has not run out
CallOnLiveEntry ==
    /\ cache_call'.op = "cached"
    /\ cache_client
    /\ ~skip_cache
    /\ cache_call'.fault = "none"
    /\ store[cache_call'.args].present
    /\ cache_now' < store[cache_call'.args].expires

\* C28: with the cache connected and skip_cache false, a call whose
\* arguments were used by a completed call less than ttl ago returns the
\* stored result and does not run the wrapped function, whatever that result
\* is, None included.
C28_HitSkipsFunction ==
    [][CallOnLiveEntry =>
          /\ ~cache_ret'.executed
          /\ executions' = executions
          /\ cache_ret'.value = Loads(store[cache_call'.args].value)]_vars

(* ------------------------------ enhanced_chat -------------------------- *)
ChatMessages == {<<"a">>, <<"A">>, <<" ">>}

\* the response generated for a message
Reply(m) == <<"r", ":">> \o m

UserEntry(m) == [role |-> "user", content |-> m]
AssistantEntry(r) == [role |-> "assistant", content |-> r]

\* a history cut one entry too late
Trim_OffByOne(h) ==
    IF Len(h) > 20 THEN SubSeq(h, Len(h) - 20, Len(h)) ELSE h

\* if len(history) > 20: history = history[-20:]
Trim(h) ==
    IF Len(h) > 20 THEN SubSeq(h, Len(h) - 19, Len(h)) ELSE h

\* the two appends and the cut, which no await separates
AppendExchange(h, m, r) ==
    Trim(Append(Append(h, UserEntry(m)), AssistantEntry(r)))

\* the request arrives: a blank message is refused with 400 before the try
ChatStart(c) ==
    \E m \in ChatMessages, ctx \in BOOLEAN :
        /\ chat[c].pc = "idle"
        /\ chat' = [chat EXCEPT ![c] =
               IF Strip(m) = <<>>
               THEN [pc |-> "done", message |-> m, use_context |-> ctx,
                     status |-> 400]
               ELSE [pc |-> "generating", message |-> m, use_context |-> ctx,
                     status |-> 0]]
        /\ UNCHANGED conversation_history
        /\ UNCHANGED <<chunkVars, dbVars, nlpVars, appVars, concVars, rlVars,
                       cacheVars>>

ChatFaults == {"none", "generate", "clean_for_tts"}

\* the response is there, or its generation raised and the except branch
\* answers with the fallback text: the history is extended when
\* use_context is set and the generation did not raise (clean_for_tts runs
\* after the appends), and the request returns
ChatFinish(c) ==
    \E fault \in ChatFaults :
        /\ chat[c].pc = "generating"
        /\ conversation_history' =
               IF fault # "generate" /\ chat[c].use_context
               THEN AppendExchange(conversation_history, chat[c].message,
                                   Reply(chat[c].message))
               ELSE conversation_history
        /\ chat' = [chat EXCEPT ![c].pc = "done", ![c].status = 200]
        /\ UNCHANGED <<chunkVars, dbVars, nlpVars, appVars, concVars, rlVars,
                       cacheVars>>

\* the client has its answer and may send the next request
ChatNextRequest(c) ==
    /\ chat[c].pc = "done"
    /\ chat' = [chat EXCEPT ![c] = NoChat]
    /\ UNCHANGED conversation_history
    /\ UNCHANGED <<chunkVars, dbVars, nlpVars, appVars, concVars, rlVars,
                   cacheVars>>

ChatNext ==
    \E c \in Clients : ChatStart(c) \/ ChatFinish(c) \/ ChatNextRequest(c)

ChatSpec == DBInit /\ [][ChatNext]_vars

\* C29: after every completed chat request, for all sequences and
\* interleavings of requests, the conversation history has at most 20
\* entries, an even number of them, user and assistant entries in turn, and
\* each assistant entry is the reply to the user entry before it.
C29_HistoryWellFormed ==
    /\ Len(conversation_history) <= 20
    /\ Len(conversation_history) % 2 = 0
    /\ \A i \in DOMAIN conversation_history :
          IF i % 2 = 1
          THEN conversation_history[i].role = "user"
          ELSE /\ conversation_history[i].role = "assistant"
               /\ conversation_history[i].content =
                      Reply(conversation_history[i - 1].content)

C29_Witness ==
    /\ Len(conversation_history) = 20
    /\ conversation_history[1].content # conversation_history[19].content
    /\ chat["c1"].pc = "done"
    /\ chat["c1"].use_context
    /\ chat["c1"].status = 200
    /\ chat["c2"].pc = "generating"

(* --------------------------- searchable phrases ------------------------ *)
\* the runs of at most n consecutive words of ws
Runs(ws, n) ==
    {SubSeq(ws, pk[1], pk[1] + pk[2] - 1) :
        pk \in {qk \in (1..Len(ws)) \X (1..n) : qk[1] + qk[2] - 1 <= Len(ws)}}

\* the words of run stand next to each other in ws
InsideWords(run, ws) ==
    \E j \in 0..(Len(ws) - Len(run)) : SubSeq(ws, j + 1, j + Len(run)) = run

\* `if query_lower in chunk.lower()` of search_documents, for the phrase
\* made of the words of run
ChunkMatches(run, chunk) == Contains(Lower(Join(run)), Lower(chunk))

\* C30: for every valid (chunk_size, overlap) and every document, each run
\* of at most overlap + 1 consecutive words of the document lies entirely
\* inside at least one chunk of chunk_document, and the per-chunk substring
\* test of search_documents finds the phrase in that chunk.
C30_ShortPhrasesSearchable ==
    (ChunkDone /\ ValidConfig) =>
        \A run \in Runs(Tokens, overlap + 1) :
            \E k \in 1..Len(chunks) :
                /\ InsideWords(run, ChunkTokens(k))
                /\ ChunkMatches(run, chunks[k])

C30_Witness ==
    /\ ChunkDone /\ ValidConfig /\ overlap >= 1
    /\ Len(chunks) >= 2
    /\ \E run \in Runs(Tokens, overlap + 1) :
          /\ Len(run) = overlap + 1
          /\ ~InsideWords(run, ChunkTokens(1))
          /\ \E k \in 2..Len(chunks) : ChunkMatches(run, chunks[k])

====
